---- MODULE Spec2Model ----
(***************************************************************************)
(* Metadata journalling on a fixed-layout VSFS image (src/journal.c).      *)
(*                                                                         *)
(* The image is a function from block index to block content.  A block or  *)
(* a buffer is a sparse byte map: a function whose domain is the set of    *)
(* byte offsets holding a non-zero byte.  All offsets are the byte offsets *)
(* of the C structures; multi-byte fields are little-endian.               *)
(***************************************************************************)
EXTENDS Integers, Sequences, FiniteSets, TLC

(* ------------------------------ bounds -------------------------------- *)
\* number of distinct one-character file names offered to create
NumNames == 2
\* values time(NULL) may return
MaxTime == 1
\* largest inode_count of the images Init offers
MaxInodes == 3
\* a create is interrupted only while at most this many transactions are staged
MaxCrashStaged == 1
\* the block writes of an install of which one may fail: the first to this one
MaxFailedWrite == 3
MaxIterations == 2
MaxMergeInodes == 3

(* ------------------------- program constants --------------------------- *)
FS_MAGIC == 1448298067
JOURNAL_MAGIC == 1246907980
BLOCK_SIZE == 4096
INODE_SIZE == 128
JOURNAL_BLOCK_IDX == 1
JOURNAL_BLOCKS == 16
INODE_BLOCKS == 2
DATA_BLOCKS == 64
INODE_BMAP_IDX == JOURNAL_BLOCK_IDX + JOURNAL_BLOCKS
DATA_BMAP_IDX == INODE_BMAP_IDX + 1
INODE_START_IDX == DATA_BMAP_IDX + 1
DATA_START_IDX == INODE_START_IDX + INODE_BLOCKS
TOTAL_BLOCKS == DATA_START_IDX + DATA_BLOCKS
DIRECT_POINTERS == 8
NAME_LEN == 28
\* JOURNAL_SIZE of a journal of half as many blocks
JOURNAL_SIZE_half == (JOURNAL_BLOCKS \div 2) * BLOCK_SIZE
JOURNAL_SIZE == JOURNAL_BLOCKS * BLOCK_SIZE
REC_DATA == 1
REC_COMMIT == 2
INODE_FREE == 0
INODE_FILE == 1
INODE_DIR == 2
EXIT_SUCCESS == 0
EXIT_FAILURE == 1
\* (uint32_t)-1, the "not found" value of bitmap_find_free and free_entry
NOT_FOUND == -1

\* sizeof of the on-disk structures
SIZEOF_dirent == 4 + NAME_LEN
SIZEOF_journal_header == 4 + 4
SIZEOF_rec_header == 2 + 2
SIZEOF_data_record == SIZEOF_rec_header + 4 + BLOCK_SIZE
SIZEOF_commit_record == SIZEOF_rec_header

\* field offsets inside the structures
OFF_sb_magic == 0
OFF_sb_block_size == 4
OFF_sb_total_blocks == 8
OFF_sb_inode_count == 12
OFF_sb_journal_block == 16
OFF_sb_inode_bitmap == 20
OFF_sb_data_bitmap == 24
OFF_sb_inode_start == 28
OFF_sb_data_start == 32
OFF_inode_type == 0
OFF_inode_links == 2
OFF_inode_size == 4
OFF_inode_direct == 8
OFF_inode_ctime == 8 + DIRECT_POINTERS * 4
OFF_inode_mtime == OFF_inode_ctime + 4
OFF_dirent_inode == 0
OFF_dirent_name == 4
OFF_jhdr_magic == 0
OFF_jhdr_nbytes_used == 4
OFF_rec_type == 0
OFF_rec_size == 2
OFF_rec_block_no == SIZEOF_rec_header
OFF_rec_data == SIZEOF_rec_header + 4

(* --------------------------- byte memory ------------------------------- *)
\* a buffer of zero bytes (memset(buf, 0, n), a zeroed block)
ZeroMem == [i \in {} |-> 0]

\* buf[i]
Byte(m, i) == IF i \in DOMAIN m THEN m[i] ELSE 0

\* the buffer whose non-zero bytes are dst's at the offsets of keep and src's,
\* moved up by at, at the offsets of new
Overlay(dst, at, src, keep, new) ==
    [i \in keep \cup new |-> IF i \in new THEN src[i - at] ELSE dst[i]]

\* memcpy(dst + at, src, len): bytes at..at+len-1 of dst become src[0..len-1]
memcpy(dst, at, src, len) ==
    Overlay(dst, at, src, {i \in DOMAIN dst : i < at \/ i >= at + len},
            {j + at : j \in {k \in DOMAIN src : k < len}})

\* the len bytes of m starting at byte at, as a buffer of its own
Slice(m, at, len) ==
    [j \in {k - at : k \in {i \in DOMAIN m : i >= at /\ i < at + len}} |-> m[j + at]]

\* the n-byte little-endian image of the unsigned value v
LE(v, n) ==
    [i \in {j \in 0..(n - 1) : (v \div (256 ^ j)) % 256 # 0} |-> (v \div (256 ^ i)) % 256]

\* store / load of a uint8_t, uint16_t, uint32_t field at byte offset at
put_u8(m, at, v) == memcpy(m, at, LE(v % 256, 1), 1)
put_u16(m, at, v) == memcpy(m, at, LE(v % 65536, 2), 2)
put_u32(m, at, v) == memcpy(m, at, LE(v, 4), 4)
get_u16(m, at) == Byte(m, at) + 256 * Byte(m, at + 1)
get_u32(m, at) ==
    Byte(m, at) + 256 * Byte(m, at + 1) + 65536 * Byte(m, at + 2) + 16777216 * Byte(m, at + 3)

\* strlen(s) of a file name given as the sequence of its characters
strlen(s) == Len(s)

\* strcmp(m + at, s) == 0: the NUL-terminated string at m+at equals s
strcmp_eq(m, at, s) ==
    /\ \A i \in 1..Len(s) : Byte(m, at + i - 1) = s[i]
    /\ Byte(m, at + Len(s)) = 0

\* strncpy(dst + at, s, n): the first n characters of s, zero-padded to n bytes
strncpy(dst, at, s, n) ==
    memcpy(dst, at, [i \in {j \in 0..(n - 1) : j < Len(s)} |-> s[i + 1]], n)

(* ---------------------------- block store ------------------------------ *)
read_block(d, block_index) == IF block_index \in DOMAIN d THEN d[block_index] ELSE ZeroMem

write_block(d, block_index, buf) ==
    [b \in DOMAIN d |-> IF b = block_index THEN Slice(buf, 0, BLOCK_SIZE) ELSE d[b]]

(* -------------------------- bitmap allocator --------------------------- *)
bitmap_test(bitmap, index) == (Byte(bitmap, index \div 8) \div (2 ^ (index % 8))) % 2

bitmap_set(bitmap, index) ==
    IF bitmap_test(bitmap, index) = 1 THEN bitmap
    ELSE put_u8(bitmap, index \div 8, Byte(bitmap, index \div 8) + 2 ^ (index % 8))

\* First giving the largest element
First_from_the_top(hits) == CHOOSE i \in hits : \A j \in hits : i >= j

\* the smallest element of a non-empty set of indices: where a loop that
\* scans upwards and stops at the first hit stops
First(hits) == CHOOSE i \in hits : \A j \in hits : i <= j

\* the value the scanning loop returns, free being the clear bits below max_bits
first_free(free) == IF free = {} THEN NOT_FOUND ELSE First(free)

bitmap_find_free(bitmap, max_bits) ==
    first_free({i \in 0..(max_bits - 1) : bitmap_test(bitmap, i) = 0})

(* ------------------------------ journal -------------------------------- *)
\* the JOURNAL_SIZE-byte buffer filled from the 16 journal blocks
read_journal(d) ==
    [o \in UNION {{i * BLOCK_SIZE + j : j \in DOMAIN read_block(d, JOURNAL_BLOCK_IDX + i)} :
                    i \in 0..(JOURNAL_BLOCKS - 1)}
        |-> read_block(d, JOURNAL_BLOCK_IDX + (o \div BLOCK_SIZE))[o % BLOCK_SIZE]]

\* write_journal_upto with the region started one block too far
write_journal_upto_shifted(d, journal_buf, n) ==
    [b \in DOMAIN d |->
        IF b >= JOURNAL_BLOCK_IDX + 1 /\ b < JOURNAL_BLOCK_IDX + 1 + n
        THEN Slice(journal_buf, (b - JOURNAL_BLOCK_IDX - 1) * BLOCK_SIZE, BLOCK_SIZE)
        ELSE d[b]]

\* the first n iterations of write_journal's loop
write_journal_upto(d, journal_buf, n) ==
    [b \in DOMAIN d |->
        IF b >= JOURNAL_BLOCK_IDX /\ b < JOURNAL_BLOCK_IDX + n
        THEN Slice(journal_buf, (b - JOURNAL_BLOCK_IDX) * BLOCK_SIZE, BLOCK_SIZE)
        ELSE d[b]]

write_journal(d, journal_buf) == write_journal_upto(d, journal_buf, JOURNAL_BLOCKS)

init_journal ==
    put_u32(put_u32(ZeroMem, OFF_jhdr_magic, JOURNAL_MAGIC),
            OFF_jhdr_nbytes_used, SIZEOF_journal_header)

journal_is_initialized(journal_buf) == get_u32(journal_buf, OFF_jhdr_magic) = JOURNAL_MAGIC

\* append_data_record with a size field that leaves out the block number
append_data_record_short_size(jo, block_no, block_data) ==
    <<memcpy(put_u32(put_u16(put_u16(jo[1],
                jo[2] + OFF_rec_type, REC_DATA),
                jo[2] + OFF_rec_size, SIZEOF_rec_header + BLOCK_SIZE),
                jo[2] + OFF_rec_block_no, block_no),
             jo[2] + OFF_rec_data, block_data, BLOCK_SIZE),
      jo[2] + ((SIZEOF_rec_header + 4 + BLOCK_SIZE) % 65536)>>

\* jo is the pair <<journal_buf, *offset>>; both return the pair after the call
append_data_record(jo, block_no, block_data) ==
    <<memcpy(put_u32(put_u16(put_u16(jo[1],
                jo[2] + OFF_rec_type, REC_DATA),
                jo[2] + OFF_rec_size, SIZEOF_rec_header + 4 + BLOCK_SIZE),
                jo[2] + OFF_rec_block_no, block_no),
             jo[2] + OFF_rec_data, block_data, BLOCK_SIZE),
      jo[2] + ((SIZEOF_rec_header + 4 + BLOCK_SIZE) % 65536)>>

append_commit_record(jo) ==
    <<put_u16(put_u16(jo[1],
                jo[2] + OFF_rec_type, REC_COMMIT),
                jo[2] + OFF_rec_size, SIZEOF_rec_header),
      jo[2] + (SIZEOF_rec_header % 65536)>>

update_journal_header(journal_buf, nbytes_used) ==
    put_u32(journal_buf, OFF_jhdr_nbytes_used, nbytes_used)

(* ------------------------------ create --------------------------------- *)
\* entry i of the directory block is unused: inode == 0 and name[0] == '\0'
entry_unused(root_data_block, i) ==
    /\ get_u32(root_data_block, i * SIZEOF_dirent + OFF_dirent_inode) = 0
    /\ Byte(root_data_block, i * SIZEOF_dirent + OFF_dirent_name) = 0

\* where the directory scan stops, stops being the entries at which it would
\* (an unused one, or one named filename)
scan_stop(root_data_block, stops) ==
    IF stops = {} THEN <<"full", NOT_FOUND>>
    ELSE IF entry_unused(root_data_block, First(stops)) THEN <<"free", First(stops)>>
    ELSE <<"dup", First(stops)>>

\* the directory scan of cmd_create: <<"free", i>> at the first unused slot,
\* <<"dup", i>> at an entry named filename met before any unused slot,
\* <<"full", NOT_FOUND>> when the loop runs off the block
scan_entries(root_data_block, filename) ==
    scan_stop(root_data_block,
        {i \in 0..((BLOCK_SIZE \div SIZEOF_dirent) - 1) :
            \/ entry_unused(root_data_block, i)
            \/ strcmp_eq(root_data_block, i * SIZEOF_dirent + OFF_dirent_name, filename)})

\* init_file_inode without the assignment of links
init_file_inode_no_links(new_inode_block, at, now) ==
    put_u32(put_u32(memcpy(put_u32(put_u16(new_inode_block,
        at + OFF_inode_type, INODE_FILE),
        at + OFF_inode_size, 0),
        at + OFF_inode_direct, ZeroMem, DIRECT_POINTERS * 4),
        at + OFF_inode_ctime, now),
        at + OFF_inode_mtime, now)

\* init_file_inode storing the mtime in the slot after the new inode's
init_file_inode_mtime_next_slot(new_inode_block, at, now) ==
    put_u32(put_u32(memcpy(put_u32(put_u16(put_u16(new_inode_block,
        at + OFF_inode_type, INODE_FILE),
        at + OFF_inode_links, 1),
        at + OFF_inode_size, 0),
        at + OFF_inode_direct, ZeroMem, DIRECT_POINTERS * 4),
        at + OFF_inode_ctime, now),
        at + INODE_SIZE + OFF_inode_mtime, now)

\* the initialisation of the new file inode, at byte at of new_inode_block
init_file_inode(new_inode_block, at, now) ==
    put_u32(put_u32(memcpy(put_u32(put_u16(put_u16(new_inode_block,
        at + OFF_inode_type, INODE_FILE),
        at + OFF_inode_links, 1),
        at + OFF_inode_size, 0),
        at + OFF_inode_direct, ZeroMem, DIRECT_POINTERS * 4),
        at + OFF_inode_ctime, now),
        at + OFF_inode_mtime, now)

\* set_entry storing the number of the inode after the allocated one
set_entry_next_inode(new_root_data_block, free_entry, free_inode, filename) ==
    put_u8(strncpy(put_u32(new_root_data_block,
        free_entry * SIZEOF_dirent + OFF_dirent_inode, free_inode + 1),
        free_entry * SIZEOF_dirent + OFF_dirent_name, filename, NAME_LEN - 1),
        free_entry * SIZEOF_dirent + OFF_dirent_name + NAME_LEN - 1, 0)

\* the new directory entry in new_root_data_block
set_entry(new_root_data_block, free_entry, free_inode, filename) ==
    put_u8(strncpy(put_u32(new_root_data_block,
        free_entry * SIZEOF_dirent + OFF_dirent_inode, free_inode),
        free_entry * SIZEOF_dirent + OFF_dirent_name, filename, NAME_LEN - 1),
        free_entry * SIZEOF_dirent + OFF_dirent_name + NAME_LEN - 1, 0)

\* the root inode update, made only when the new inode lies in inode block 0
update_root_inode(new_inode_block, inode_block_idx, now) ==
    IF inode_block_idx = 0
    THEN put_u32(put_u32(new_inode_block, OFF_inode_size,
                         get_u32(new_inode_block, OFF_inode_size) + SIZEOF_dirent),
                 OFF_inode_mtime, now)
    ELSE new_inode_block

\* new_inode_block as it is journaled
build_inode_block(d, free_inode, now) ==
    update_root_inode(
        init_file_inode(
            IF free_inode \div (BLOCK_SIZE \div INODE_SIZE) # 0
            THEN read_block(d, INODE_START_IDX + free_inode \div (BLOCK_SIZE \div INODE_SIZE))
            ELSE read_block(d, INODE_START_IDX),
            (free_inode % (BLOCK_SIZE \div INODE_SIZE)) * INODE_SIZE, now),
        free_inode \div (BLOCK_SIZE \div INODE_SIZE), now)

\* total_needed counting the commit record only
total_needed_commit_only == SIZEOF_rec_header

\* total_needed of the space check
total_needed == (3 * (SIZEOF_rec_header + 4 + BLOCK_SIZE)) + SIZEOF_rec_header

\* the outcome of cmd_create that does not depend on write_journal
Outcome(err, journal_buf, free_inode, free_entry) ==
    [err |-> err, journal_buf |-> journal_buf, free_inode |-> free_inode, free_entry |-> free_entry]

\* update_journal_header on the pair left by the appends
close_txn(jo) == update_journal_header(jo[1], jo[2])

\* the space check and the four appends, once every precondition has passed
create_append(d, filename, now, journal_buf, free_inode, root_data_blk, free_entry) ==
    IF get_u32(journal_buf, OFF_jhdr_nbytes_used) + total_needed > JOURNAL_SIZE
    THEN Outcome("JournalFull", journal_buf, free_inode, free_entry)
    ELSE Outcome("none",
            close_txn(append_commit_record(append_data_record(append_data_record(append_data_record(
                <<journal_buf, get_u32(journal_buf, OFF_jhdr_nbytes_used)>>,
                INODE_BMAP_IDX, bitmap_set(read_block(d, INODE_BMAP_IDX), free_inode)),
                INODE_START_IDX + free_inode \div (BLOCK_SIZE \div INODE_SIZE),
                build_inode_block(d, free_inode, now)),
                root_data_blk,
                set_entry(read_block(d, root_data_blk), free_entry, free_inode, filename)))),
            free_inode, free_entry)

\* the outcome of the directory scan
create_scan(d, filename, now, journal_buf, free_inode, root_data_blk, scan) ==
    IF scan[1] = "dup" THEN Outcome("DuplicateName", journal_buf, free_inode, NOT_FOUND)
    ELSE IF scan[1] = "full" THEN Outcome("NoFreeDirectorySlot", journal_buf, free_inode, NOT_FOUND)
    ELSE create_append(d, filename, now, journal_buf, free_inode, root_data_blk, scan[2])

\* the free-inode check, then the directory scan
create_alloc(d, filename, now, journal_buf, free_inode, root_data_blk) ==
    IF free_inode = NOT_FOUND THEN Outcome("NoFreeInode", journal_buf, NOT_FOUND, NOT_FOUND)
    ELSE create_scan(d, filename, now, journal_buf, free_inode, root_data_blk,
                     scan_entries(read_block(d, root_data_blk), filename))

\* the journal buffer after read_journal and the lazy init_journal
load_journal(journal_buf) ==
    IF journal_is_initialized(journal_buf) THEN journal_buf ELSE init_journal

\* cmd_create up to, not including, write_journal: the error met ("none"
\* when the transaction was built) and the journal buffer in memory
create_txn(d, filename, now) ==
    IF strlen(filename) >= NAME_LEN
    THEN Outcome("NameTooLong", ZeroMem, NOT_FOUND, NOT_FOUND)
    ELSE IF get_u32(read_block(d, 0), OFF_sb_magic) # FS_MAGIC
    THEN Outcome("InvalidImage", ZeroMem, NOT_FOUND, NOT_FOUND)
    ELSE create_alloc(d, filename, now, load_journal(read_journal(d)),
            bitmap_find_free(read_block(d, INODE_BMAP_IDX),
                             get_u32(read_block(d, 0), OFF_sb_inode_count)),
            get_u32(read_block(d, INODE_START_IDX), OFF_inode_direct))

\* create_finish writing the journal buffer back on the error paths too
create_finish_always_writes(d, t) ==
    [disk |-> IF t.err \in {"NameTooLong", "InvalidImage"} THEN d
              ELSE write_journal(d, t.journal_buf),
     status |-> IF t.err = "none" THEN EXIT_SUCCESS ELSE EXIT_FAILURE,
     err |-> t.err, free_inode |-> t.free_inode, free_entry |-> t.free_entry]

\* the write-back and the exit status that follow create_txn's outcome t
create_finish(d, t) ==
    [disk |-> IF t.err = "none" THEN write_journal(d, t.journal_buf) ELSE d,
     status |-> IF t.err = "none" THEN EXIT_SUCCESS ELSE EXIT_FAILURE,
     err |-> t.err, free_inode |-> t.free_inode, free_entry |-> t.free_entry]

\* cmd_create: the image and the exit status it leaves
cmd_create(d, filename, now) == create_finish(d, create_txn(d, filename, now))

(* ------------------------------ install -------------------------------- *)
\* count_commits counting the data records as well
RECURSIVE count_commits_and_data(_, _, _, _)
count_commits_and_data(journal_buf, offset, nbytes_used, transactions_replayed) ==
    IF ~(offset < nbytes_used) THEN transactions_replayed
    ELSE IF offset + SIZEOF_rec_header > nbytes_used THEN transactions_replayed
    ELSE IF get_u16(journal_buf, offset + OFF_rec_type) \in {REC_DATA, REC_COMMIT}
         THEN count_commits_and_data(journal_buf,
                                     offset + get_u16(journal_buf, offset + OFF_rec_size),
                                     nbytes_used, transactions_replayed + 1)
    ELSE transactions_replayed

\* the first scanning loop: the number of commit records counted from offset on
RECURSIVE count_commits(_, _, _, _)
count_commits(journal_buf, offset, nbytes_used, transactions_replayed) ==
    IF ~(offset < nbytes_used) THEN transactions_replayed
    ELSE IF offset + SIZEOF_rec_header > nbytes_used THEN transactions_replayed
    ELSE IF get_u16(journal_buf, offset + OFF_rec_type) = REC_DATA
         THEN count_commits(journal_buf, offset + get_u16(journal_buf, offset + OFF_rec_size),
                            nbytes_used, transactions_replayed)
    ELSE IF get_u16(journal_buf, offset + OFF_rec_type) = REC_COMMIT
         THEN count_commits(journal_buf, offset + get_u16(journal_buf, offset + OFF_rec_size),
                            nbytes_used, transactions_replayed + 1)
    ELSE transactions_replayed

\* the second scanning loop, stopped after n calls of write_block
RECURSIVE apply_records_upto(_, _, _, _, _)
apply_records_upto(d, journal_buf, offset, nbytes_used, n) ==
    IF ~(offset < nbytes_used) THEN d
    ELSE IF offset + SIZEOF_rec_header > nbytes_used THEN d
    ELSE IF get_u16(journal_buf, offset + OFF_rec_type) = REC_DATA
         THEN IF n = 0 THEN d
              ELSE apply_records_upto(
                      write_block(d, get_u32(journal_buf, offset + OFF_rec_block_no),
                                  Slice(journal_buf, offset + OFF_rec_data, BLOCK_SIZE)),
                      journal_buf, offset + get_u16(journal_buf, offset + OFF_rec_size),
                      nbytes_used, n - 1)
    ELSE IF get_u16(journal_buf, offset + OFF_rec_type) = REC_COMMIT
         THEN apply_records_upto(d, journal_buf,
                                 offset + get_u16(journal_buf, offset + OFF_rec_size),
                                 nbytes_used, n)
    ELSE d

\* the second scanning loop when the write() of its k-th write_block call
\* fails and transfers nothing: the return value is not looked at and the
\* loop goes on
RECURSIVE apply_records_failing(_, _, _, _, _)
apply_records_failing(d, journal_buf, offset, nbytes_used, k) ==
    IF ~(offset < nbytes_used) THEN d
    ELSE IF offset + SIZEOF_rec_header > nbytes_used THEN d
    ELSE IF get_u16(journal_buf, offset + OFF_rec_type) = REC_DATA
         THEN apply_records_failing(
                 IF k = 1 THEN d
                 ELSE write_block(d, get_u32(journal_buf, offset + OFF_rec_block_no),
                                  Slice(journal_buf, offset + OFF_rec_data, BLOCK_SIZE)),
                 journal_buf, offset + get_u16(journal_buf, offset + OFF_rec_size),
                 nbytes_used, k - 1)
    ELSE IF get_u16(journal_buf, offset + OFF_rec_type) = REC_COMMIT
         THEN apply_records_failing(d, journal_buf,
                                    offset + get_u16(journal_buf, offset + OFF_rec_size),
                                    nbytes_used, k)
    ELSE d

\* the number of write_block calls the second scanning loop makes
RECURSIVE count_writes(_, _, _)
count_writes(journal_buf, offset, nbytes_used) ==
    IF ~(offset < nbytes_used) THEN 0
    ELSE IF offset + SIZEOF_rec_header > nbytes_used THEN 0
    ELSE IF get_u16(journal_buf, offset + OFF_rec_type) = REC_DATA
         THEN 1 + count_writes(journal_buf,
                               offset + get_u16(journal_buf, offset + OFF_rec_size), nbytes_used)
    ELSE IF get_u16(journal_buf, offset + OFF_rec_type) = REC_COMMIT
         THEN count_writes(journal_buf,
                           offset + get_u16(journal_buf, offset + OFF_rec_size), nbytes_used)
    ELSE 0

\* the second scanning loop stepping over a record of unknown type
RECURSIVE apply_records_past_unknown(_, _, _, _)
apply_records_past_unknown(d, journal_buf, offset, nbytes_used) ==
    IF ~(offset < nbytes_used) THEN d
    ELSE IF offset + SIZEOF_rec_header > nbytes_used THEN d
    ELSE IF get_u16(journal_buf, offset + OFF_rec_type) = REC_DATA
         THEN apply_records_past_unknown(
                 write_block(d, get_u32(journal_buf, offset + OFF_rec_block_no),
                             Slice(journal_buf, offset + OFF_rec_data, BLOCK_SIZE)),
                 journal_buf, offset + get_u16(journal_buf, offset + OFF_rec_size), nbytes_used)
    ELSE IF get_u16(journal_buf, offset + OFF_rec_size) >= SIZEOF_rec_header
         THEN apply_records_past_unknown(d, journal_buf,
                                         offset + get_u16(journal_buf, offset + OFF_rec_size),
                                         nbytes_used)
    ELSE d

\* the second scanning loop applying nothing unless the journal holds a commit record
apply_records_if_committed(d, journal_buf, offset, nbytes_used) ==
    IF count_commits(journal_buf, offset, nbytes_used, 0) = 0 THEN d
    ELSE apply_records_upto(d, journal_buf, offset, nbytes_used, JOURNAL_SIZE)

\* the second scanning loop applying the data records last to first
RECURSIVE apply_records_backwards(_, _, _, _)
apply_records_backwards(d, journal_buf, offset, nbytes_used) ==
    IF ~(offset < nbytes_used) THEN d
    ELSE IF offset + SIZEOF_rec_header > nbytes_used THEN d
    ELSE IF get_u16(journal_buf, offset + OFF_rec_type) = REC_DATA
         THEN write_block(
                 apply_records_backwards(d, journal_buf,
                                         offset + get_u16(journal_buf, offset + OFF_rec_size),
                                         nbytes_used),
                 get_u32(journal_buf, offset + OFF_rec_block_no),
                 Slice(journal_buf, offset + OFF_rec_data, BLOCK_SIZE))
    ELSE IF get_u16(journal_buf, offset + OFF_rec_type) = REC_COMMIT
         THEN apply_records_backwards(d, journal_buf,
                                      offset + get_u16(journal_buf, offset + OFF_rec_size),
                                      nbytes_used)
    ELSE d

\* the second scanning loop run to its end
apply_records(d, journal_buf, offset, nbytes_used) ==
    apply_records_upto(d, journal_buf, offset, nbytes_used, JOURNAL_SIZE)

\* install_replay without the journal reset
install_replay_no_reset(d, journal_buf) ==
    IF ~journal_is_initialized(journal_buf)
    THEN [disk |-> d, status |-> EXIT_FAILURE, transactions_replayed |-> 0]
    ELSE [disk |-> apply_records(d, journal_buf, SIZEOF_journal_header,
                                 get_u32(journal_buf, OFF_jhdr_nbytes_used)),
          status |-> EXIT_SUCCESS,
          transactions_replayed |->
              count_commits(journal_buf, SIZEOF_journal_header,
                            get_u32(journal_buf, OFF_jhdr_nbytes_used), 0)]

\* install_replay resetting the journal only when it counted a commit record
install_replay_reset_if_commits(d, journal_buf) ==
    IF count_commits(journal_buf, SIZEOF_journal_header,
                     get_u32(journal_buf, OFF_jhdr_nbytes_used), 0) = 0
    THEN install_replay_no_reset(d, journal_buf)
    ELSE [disk |-> write_journal(
                      apply_records(d, journal_buf, SIZEOF_journal_header,
                                    get_u32(journal_buf, OFF_jhdr_nbytes_used)),
                      init_journal),
          status |-> EXIT_SUCCESS,
          transactions_replayed |->
              count_commits(journal_buf, SIZEOF_journal_header,
                            get_u32(journal_buf, OFF_jhdr_nbytes_used), 0)]

\* cmd_install once the journal is in memory
install_replay(d, journal_buf) ==
    IF ~journal_is_initialized(journal_buf)
    THEN [disk |-> d, status |-> EXIT_FAILURE, transactions_replayed |-> 0]
    ELSE [disk |-> write_journal(
                      apply_records(d, journal_buf, SIZEOF_journal_header,
                                    get_u32(journal_buf, OFF_jhdr_nbytes_used)),
                      init_journal),
          status |-> EXIT_SUCCESS,
          transactions_replayed |->
              count_commits(journal_buf, SIZEOF_journal_header,
                            get_u32(journal_buf, OFF_jhdr_nbytes_used), 0)]

\* cmd_install: the image, the exit status and the number of transactions printed
cmd_install(d) == install_replay(d, read_journal(d))

\* install_interrupted with the journal reset written before the data records
install_interrupted_reset_first(d, journal_buf, n, writes) ==
    IF n <= JOURNAL_BLOCKS
    THEN write_journal_upto(d, init_journal, n)
    ELSE apply_records_upto(write_journal(d, init_journal), journal_buf,
                            SIZEOF_journal_header,
                            get_u32(journal_buf, OFF_jhdr_nbytes_used), n - JOURNAL_BLOCKS)

\* the image after the first n block writes of cmd_install, writes being the
\* number of write_block calls of the second loop: those of the loop come
\* first, those of write_journal after them
install_interrupted(d, journal_buf, n, writes) ==
    IF n <= writes
    THEN apply_records_upto(d, journal_buf, SIZEOF_journal_header,
                            get_u32(journal_buf, OFF_jhdr_nbytes_used), n)
    ELSE write_journal_upto(
            apply_records(d, journal_buf, SIZEOF_journal_header,
                          get_u32(journal_buf, OFF_jhdr_nbytes_used)),
            init_journal, n - writes)

\* cmd_install, once the journal is in memory, when the k-th write_block call
\* of the second loop fails
install_replay_failing(d, journal_buf, k) ==
    [disk |-> write_journal(
                 apply_records_failing(d, journal_buf, SIZEOF_journal_header,
                                       get_u32(journal_buf, OFF_jhdr_nbytes_used), k),
                 init_journal),
     status |-> EXIT_SUCCESS,
     transactions_replayed |->
         count_commits(journal_buf, SIZEOF_journal_header,
                       get_u32(journal_buf, OFF_jhdr_nbytes_used), 0)]

(* --------------------------- the state machine ------------------------- *)
VARIABLES
    disk,     \* the image vsfs.img: block index -> block content
    pre,      \* the image as it was when the last operation started
    last,     \* what the last operation was and what it reported
    staged,   \* the successful creates since the journal was last empty
    origin,   \* the image as it was when the journal was last empty
    torn,     \* the create that was interrupted, once one has been
    image0,   \* the image the execution started from
    created,  \* the names of the successful creates so far
    repeated, \* some name has been created successfully more than once
    scan      \* where an install that is followed step by step stands

vars == <<disk, pre, last, staged, origin, torn, image0, created, repeated, scan>>

\* the file names offered to create: one-character names and a name of NAME_LEN characters
Names == {<<96 + i>> : i \in 1..NumNames}
LongName == [i \in 1..NAME_LEN |-> 97]
FileNames == Names \cup {LongName}
Times == 1..MaxTime

\* an image as the formatting step leaves it: superblock, inode 0 (the root
\* directory) allocated with its data block, the journal region zeroed;
\* dots says whether the root directory holds the entries "." and ".."
mkfs_image(inode_count, dots, sb_magic) ==
    [b \in 0..(TOTAL_BLOCKS - 1) |->
        IF b = 0
        THEN put_u32(put_u32(put_u32(put_u32(put_u32(put_u32(put_u32(put_u32(put_u32(ZeroMem,
                OFF_sb_magic, sb_magic), OFF_sb_block_size, BLOCK_SIZE),
                OFF_sb_total_blocks, TOTAL_BLOCKS), OFF_sb_inode_count, inode_count),
                OFF_sb_journal_block, JOURNAL_BLOCK_IDX), OFF_sb_inode_bitmap, INODE_BMAP_IDX),
                OFF_sb_data_bitmap, DATA_BMAP_IDX), OFF_sb_inode_start, INODE_START_IDX),
                OFF_sb_data_start, DATA_START_IDX)
        ELSE IF b = INODE_BMAP_IDX THEN bitmap_set(ZeroMem, 0)
        ELSE IF b = DATA_BMAP_IDX THEN bitmap_set(ZeroMem, 0)
        ELSE IF b = INODE_START_IDX
        THEN put_u32(put_u32(put_u16(put_u16(ZeroMem, OFF_inode_type, INODE_DIR),
                OFF_inode_links, 2), OFF_inode_size, IF dots THEN 2 * SIZEOF_dirent ELSE 0),
                OFF_inode_direct, DATA_START_IDX)
        ELSE IF b = DATA_START_IDX /\ dots
        THEN strncpy(strncpy(ZeroMem, OFF_dirent_name, <<46>>, NAME_LEN),
                     SIZEOF_dirent + OFF_dirent_name, <<46, 46>>, NAME_LEN)
        ELSE ZeroMem]

NoOp == [op |-> "none", status |-> EXIT_SUCCESS, err |-> "none", name |-> <<>>,
         free_inode |-> NOT_FOUND, free_entry |-> NOT_FOUND, count |-> 0,
         txns |-> <<>>, prevop |-> "none", prevstatus |-> EXIT_SUCCESS, nblocks |-> 0,
         now |-> 0]

NoTorn == [name |-> <<>>, now |-> 0, disk0 |-> ZeroMem]

\* no install is being followed step by step
NoScan == [pc |-> "idle", journal_buf |-> ZeroMem, offset |-> 0, nbytes_used |-> 0,
           transactions_replayed |-> 0, iterations |-> 0]

\* an image whose root directory is full: every slot is a link to file inode 1
full_dir_image ==
    [b \in 0..(TOTAL_BLOCKS - 1) |->
        IF b = INODE_BMAP_IDX THEN bitmap_set(bitmap_set(ZeroMem, 0), 1)
        ELSE IF b = INODE_START_IDX
        THEN put_u16(put_u16(put_u32(mkfs_image(3, FALSE, FS_MAGIC)[b],
                OFF_inode_size, BLOCK_SIZE),
                INODE_SIZE + OFF_inode_type, INODE_FILE),
                INODE_SIZE + OFF_inode_links, BLOCK_SIZE \div SIZEOF_dirent)
        ELSE IF b = DATA_START_IDX
        THEN [o \in UNION {{i * SIZEOF_dirent + OFF_dirent_inode,
                            i * SIZEOF_dirent + OFF_dirent_name,
                            i * SIZEOF_dirent + OFF_dirent_name + 1} :
                           i \in 0..((BLOCK_SIZE \div SIZEOF_dirent) - 1)} |->
                IF o % SIZEOF_dirent = OFF_dirent_inode THEN 1
                ELSE IF o % SIZEOF_dirent = OFF_dirent_name
                THEN 65 + ((o \div SIZEOF_dirent) \div 16)
                ELSE 65 + ((o \div SIZEOF_dirent) % 16)]
        ELSE mkfs_image(3, FALSE, FS_MAGIC)[b]]

\* the images an execution starts from
Images ==
    {mkfs_image(inode_count, dots, FS_MAGIC) : inode_count \in 1..MaxInodes, dots \in BOOLEAN}
        \cup {mkfs_image(2, FALSE, 0), full_dir_image}

\* the start of an execution on image d
InitOn(d) ==
    /\ disk = d
    /\ pre = d
    /\ last = NoOp
    /\ staged = <<>>
    /\ origin = d
    /\ torn = NoTorn
    /\ image0 = d
    /\ created = {}
    /\ repeated = FALSE
    /\ scan = NoScan

(* Images the program is handed with a history behind them: a journal      *)
(* region left by an interrupted or foreign writer, a root directory with  *)
(* a hole, an inode table whose first block is in use.                     *)

\* the payload and the target block of the data records of the given journals
given_payload == [i \in {0, 200, BLOCK_SIZE - 1} |-> 71 + (i % 7)]
given_block == DATA_START_IDX + 1

\* a record header of a type that is neither REC_DATA nor REC_COMMIT
append_unknown_record(jo) ==
    <<put_u16(put_u16(jo[1], jo[2] + OFF_rec_type, REC_COMMIT + 1),
              jo[2] + OFF_rec_size, SIZEOF_rec_header),
      jo[2] + SIZEOF_rec_header>>

\* one data record after the header, no commit record
one_data_record ==
    append_data_record(<<init_journal, SIZEOF_journal_header>>, given_block, given_payload)

\* data, commit, a record of unknown type, data, commit
around_unknown_record ==
    append_commit_record(append_data_record(append_unknown_record(
        append_commit_record(one_data_record)), given_block + 1, given_payload))

\* the journal buffers of the given images
GivenJournals ==
    { \* the last record is truncated: nbytes_used ends inside its payload
      update_journal_header(one_data_record[1], SIZEOF_journal_header + OFF_rec_data + 100),
      \* nbytes_used ends inside the header of the last record
      update_journal_header(one_data_record[1], SIZEOF_journal_header + 2),
      \* a data record that no commit record follows
      close_txn(one_data_record),
      \* an empty journal with the bytes of an old record after nbytes_used
      one_data_record[1],
      \* a record of unknown type between two transactions
      close_txn(around_unknown_record) }

\* a formatted image whose journal region holds journal_buf
journal_image(journal_buf) == write_journal(mkfs_image(3, TRUE, FS_MAGIC), journal_buf)

\* an image whose root directory has a hole: slot 0 is unused, slot 1 is the
\* entry of file inode 1, named name
hole_image(name) ==
    [b \in 0..(TOTAL_BLOCKS - 1) |->
        IF b = INODE_BMAP_IDX THEN bitmap_set(bitmap_set(ZeroMem, 0), 1)
        ELSE IF b = INODE_START_IDX
        THEN init_file_inode(put_u32(mkfs_image(3, FALSE, FS_MAGIC)[b],
                                     OFF_inode_size, SIZEOF_dirent), INODE_SIZE, 1)
        ELSE IF b = DATA_START_IDX THEN set_entry(ZeroMem, 1, 1, name)
        ELSE mkfs_image(3, FALSE, FS_MAGIC)[b]]

\* an image with the inodes of the first inode-table block all in use: the
\* root directory and the files 1..31, entry i - 1 being the link to file i
block0_used_image ==
    [b \in 0..(TOTAL_BLOCKS - 1) |->
        IF b = 0
        THEN put_u32(mkfs_image(3, FALSE, FS_MAGIC)[b], OFF_sb_inode_count,
                     (BLOCK_SIZE \div INODE_SIZE) + 2)
        ELSE IF b = INODE_BMAP_IDX
        THEN [i \in 0..(((BLOCK_SIZE \div INODE_SIZE) \div 8) - 1) |-> 255]
        ELSE IF b = INODE_START_IDX
        THEN [o \in {OFF_inode_type, OFF_inode_links, OFF_inode_size, OFF_inode_size + 1,
                     OFF_inode_direct}
                   \cup UNION {{i * INODE_SIZE + OFF_inode_type, i * INODE_SIZE + OFF_inode_links} :
                                 i \in 1..((BLOCK_SIZE \div INODE_SIZE) - 1)} |->
                IF o = OFF_inode_type THEN INODE_DIR
                ELSE IF o = OFF_inode_links THEN 2
                ELSE IF o = OFF_inode_size
                THEN (((BLOCK_SIZE \div INODE_SIZE) - 1) * SIZEOF_dirent) % 256
                ELSE IF o = OFF_inode_size + 1
                THEN (((BLOCK_SIZE \div INODE_SIZE) - 1) * SIZEOF_dirent) \div 256
                ELSE IF o = OFF_inode_direct THEN DATA_START_IDX
                ELSE 1]
        ELSE IF b = DATA_START_IDX
        THEN [o \in UNION {{i * SIZEOF_dirent + OFF_dirent_inode,
                            i * SIZEOF_dirent + OFF_dirent_name,
                            i * SIZEOF_dirent + OFF_dirent_name + 1} :
                           i \in 0..((BLOCK_SIZE \div INODE_SIZE) - 2)} |->
                IF o % SIZEOF_dirent = OFF_dirent_inode THEN (o \div SIZEOF_dirent) + 1
                ELSE IF o % SIZEOF_dirent = OFF_dirent_name
                THEN 65 + ((o \div SIZEOF_dirent) \div 16)
                ELSE 65 + ((o \div SIZEOF_dirent) % 16)]
        ELSE mkfs_image(3, FALSE, FS_MAGIC)[b]]

\* the images an execution may be handed
GivenImages ==
    Images \cup {journal_image(journal_buf) : journal_buf \in GivenJournals}
           \cup {hole_image(name) : name \in Names} \cup {block0_used_image}

Init ==
    /\ disk \in Images
    /\ pre = disk
    /\ last = NoOp
    /\ staged = <<>>
    /\ origin = disk
    /\ torn = NoTorn
    /\ image0 = disk
    /\ created = {}
    /\ repeated = FALSE
    /\ scan = NoScan

\* the state after a create that ran to its end with result r
Created(filename, now, r) ==
    /\ disk' = r.disk
    /\ pre' = disk
    /\ last' = [op |-> "create", status |-> r.status, err |-> r.err, name |-> filename,
                free_inode |-> r.free_inode, free_entry |-> r.free_entry, count |-> 0,
                txns |-> <<>>, prevop |-> last.op, prevstatus |-> last.status, nblocks |-> 0,
                now |-> now]
    /\ staged' = IF r.err = "none"
                 THEN Append(staged, [name |-> filename, free_inode |-> r.free_inode,
                                      free_entry |-> r.free_entry, now |-> now])
                 ELSE staged
    /\ origin' = IF staged = <<>> THEN disk ELSE origin
    /\ torn' = NoTorn
    /\ image0' = image0
    /\ scan' = scan
    /\ created' = IF r.err = "none" THEN created \cup {filename} ELSE created
    /\ repeated' = (repeated \/ (r.err = "none" /\ filename \in created))

\* ./journal create <filename>, run to its end at time now
Create(filename, now) == Created(filename, now, cmd_create(disk, filename, now))

\* the state after an install that ran to its end with result r
Installed(r) ==
    /\ disk' = r.disk
    /\ pre' = disk
    /\ last' = [op |-> "install", status |-> r.status, err |-> "none", name |-> <<>>,
                free_inode |-> NOT_FOUND, free_entry |-> NOT_FOUND,
                count |-> r.transactions_replayed, txns |-> staged,
                prevop |-> last.op, prevstatus |-> last.status, nblocks |-> 0, now |-> 0]
    /\ staged' = IF r.status = EXIT_SUCCESS THEN <<>> ELSE staged
    /\ origin' = origin
    /\ torn' = torn
    /\ UNCHANGED <<image0, created, repeated, scan>>

\* ./journal install, run to its end
Install == Installed(cmd_install(disk))

\* the state after a create killed inside write_journal, t being what it had built
Torn(filename, now, nblocks, t) ==
    /\ t.err = "none"
    /\ disk' = write_journal_upto(disk, t.journal_buf, nblocks)
    /\ pre' = disk
    /\ last' = [op |-> "create_crash", status |-> EXIT_FAILURE, err |-> "none", name |-> filename,
                free_inode |-> t.free_inode, free_entry |-> t.free_entry, count |-> 0,
                txns |-> <<>>, prevop |-> last.op, prevstatus |-> last.status,
                nblocks |-> nblocks, now |-> now]
    /\ staged' = staged
    /\ origin' = IF staged = <<>> THEN disk ELSE origin
    /\ torn' = [name |-> filename, now |-> now, disk0 |-> disk]
    /\ UNCHANGED <<image0, created, repeated, scan>>

\* ./journal create <filename> killed inside write_journal, after nblocks of
\* the JOURNAL_BLOCKS block writes
CreateCrash(filename, now, nblocks) ==
    Torn(filename, now, nblocks, create_txn(disk, filename, now))

\* the state after an install whose k-th block write failed, r being its result
InstalledFailing(k, r) ==
    /\ disk' = r.disk
    /\ pre' = disk
    /\ last' = [op |-> "install_io", status |-> r.status, err |-> "none", name |-> <<>>,
                free_inode |-> NOT_FOUND, free_entry |-> NOT_FOUND,
                count |-> r.transactions_replayed, txns |-> staged,
                prevop |-> last.op, prevstatus |-> last.status, nblocks |-> k, now |-> 0]
    /\ staged' = <<>>
    /\ origin' = origin
    /\ torn' = torn
    /\ UNCHANGED <<image0, created, repeated, scan>>

\* ./journal install during which the write() of the k-th block write of the
\* second loop fails
InstallWriteFails(k) ==
    /\ journal_is_initialized(read_journal(disk))
    /\ k <= count_writes(read_journal(disk), SIZEOF_journal_header,
                         get_u32(read_journal(disk), OFF_jhdr_nbytes_used))
    /\ InstalledFailing(k, install_replay_failing(disk, read_journal(disk), k))

\* the state after an install killed after n block writes, n of them or
\* fewer being those of the second loop
InstallTorn(n, writes, d) ==
    /\ n < writes + JOURNAL_BLOCKS
    /\ disk' = d
    /\ pre' = disk
    /\ last' = [op |-> "install_crash", status |-> EXIT_FAILURE, err |-> "none", name |-> <<>>,
                free_inode |-> NOT_FOUND, free_entry |-> NOT_FOUND, count |-> 0,
                txns |-> staged, prevop |-> last.op, prevstatus |-> last.status,
                nblocks |-> n, now |-> 0]
    /\ staged' = IF n > writes THEN <<>> ELSE staged
    /\ origin' = origin
    /\ torn' = [name |-> <<>>, now |-> 0, disk0 |-> disk]
    /\ UNCHANGED <<image0, created, repeated, scan>>

\* the interrupted install, the journal being in memory
InstallCrashAt(journal_buf, n, writes) ==
    /\ journal_is_initialized(journal_buf)
    /\ InstallTorn(n, writes, install_interrupted(disk, journal_buf, n, writes))

\* ./journal install killed after n of its block writes
InstallCrash(n) ==
    InstallCrashAt(read_journal(disk), n,
                   count_writes(read_journal(disk), SIZEOF_journal_header,
                                get_u32(read_journal(disk), OFF_jhdr_nbytes_used)))

Next ==
    \/ \E filename \in FileNames, now \in Times : Create(filename, now)
    \/ Install

Spec == Init /\ [][Next]_vars

\* operations up to one interrupted create, then the installs that recover from it
NextCrash ==
    \/ /\ torn = NoTorn
       /\ \E filename \in FileNames, now \in Times : Create(filename, now)
    \/ Install
    \/ /\ torn = NoTorn
       /\ Len(staged) <= MaxCrashStaged
       /\ \E filename \in Names, now \in Times, nblocks \in 1..(JOURNAL_BLOCKS - 1) :
             CreateCrash(filename, now, nblocks)

SpecCrash == Init /\ [][NextCrash]_vars

\* operations up to one interrupted install, then the installs that recover from it
NextInstallCrash ==
    \/ /\ torn = NoTorn
       /\ \E filename \in FileNames, now \in Times : Create(filename, now)
    \/ Install
    \/ /\ torn = NoTorn
       /\ Len(staged) <= MaxCrashStaged + 1
       /\ \E n \in 0..((JOURNAL_SIZE \div SIZEOF_data_record) + JOURNAL_BLOCKS - 1) :
             InstallCrash(n)

SpecInstallCrash == Init /\ [][NextInstallCrash]_vars

\* the operations, and installs during which one block write fails
NextIO ==
    \/ \E filename \in FileNames, now \in Times : Create(filename, now)
    \/ Install
    \/ \E k \in 1..MaxFailedWrite : InstallWriteFails(k)

SpecIO == Init /\ [][NextIO]_vars

\* the operations, create being given the empty file name as well
EmptyName == <<>>

NextNames ==
    \/ \E filename \in FileNames \cup {EmptyName}, now \in Times : Create(filename, now)
    \/ Install

SpecNames == Init /\ [][NextNames]_vars

(* cmd_install followed one loop iteration at a time: scan.pc says which   *)
(* loop it is in, scan.iterations how many iterations of that loop it has  *)
(* made, counted up to MaxIterations.                                       *)

\* a journal buffer whose records end with a data record header declaring size
data_record_of_size(jo, size) ==
    update_journal_header(
        put_u16(put_u16(jo[1], jo[2] + OFF_rec_type, REC_DATA), jo[2] + OFF_rec_size, size),
        jo[2] + SIZEOF_rec_header)

\* the journal buffers of the images an install is followed on
ScanJournals ==
    { \* a data record of size 0, alone and after a complete transaction
      data_record_of_size(<<init_journal, SIZEOF_journal_header>>, 0),
      data_record_of_size(append_commit_record(one_data_record), 0),
      \* a data record whose size is smaller than the record header
      data_record_of_size(<<init_journal, SIZEOF_journal_header>>, SIZEOF_rec_header \div 2),
      \* nbytes_used beyond the journal region, no record
      update_journal_header(init_journal, JOURNAL_SIZE + SIZEOF_rec_header),
      \* a record of unknown type between two transactions
      close_txn(around_unknown_record) }

ScanImages ==
    {mkfs_image(MaxInodes, FALSE, FS_MAGIC)} \cup {journal_image(j) : j \in ScanJournals}

InitScan == \E d \in ScanImages : InitOn(d)

\* the loop condition and the checks of the body that keep a scanning loop
\* going: a whole record header of a known type lies below nbytes_used
LoopContinues(s) ==
    /\ s.offset < s.nbytes_used
    /\ ~(s.offset + SIZEOF_rec_header > s.nbytes_used)
    /\ get_u16(s.journal_buf, s.offset + OFF_rec_type) \in {REC_DATA, REC_COMMIT}

\* offset += hdr->size
Advance(s) ==
    [s EXCEPT !.offset = @ + get_u16(s.journal_buf, s.offset + OFF_rec_size),
              !.iterations = IF @ < MaxIterations THEN @ + 1 ELSE @]

\* cmd_install up to the first loop: the journal is read and has its magic
InstallBegin ==
    /\ scan = NoScan
    /\ journal_is_initialized(read_journal(disk))
    /\ scan' = [pc |-> "first loop", journal_buf |-> read_journal(disk),
                offset |-> SIZEOF_journal_header,
                nbytes_used |-> get_u32(read_journal(disk), OFF_jhdr_nbytes_used),
                transactions_replayed |-> 0, iterations |-> 0]
    /\ pre' = disk
    /\ UNCHANGED <<disk, last, staged, origin, torn, image0, created, repeated>>

\* one evaluation of the first while: an iteration, or the way out of the loop
FirstLoopStep ==
    /\ scan.pc = "first loop"
    /\ scan' = IF ~LoopContinues(scan)
               THEN [scan EXCEPT !.pc = "second loop", !.offset = SIZEOF_journal_header,
                                 !.iterations = 0]
               ELSE IF get_u16(scan.journal_buf, scan.offset + OFF_rec_type) = REC_COMMIT
               THEN [Advance(scan) EXCEPT !.transactions_replayed = @ + 1]
               ELSE Advance(scan)
    /\ UNCHANGED <<disk, pre, last, staged, origin, torn, image0, created, repeated>>

\* one evaluation of the second while
SecondLoopStep ==
    /\ scan.pc = "second loop"
    /\ disk' = IF LoopContinues(scan)
                  /\ get_u16(scan.journal_buf, scan.offset + OFF_rec_type) = REC_DATA
               THEN write_block(disk, get_u32(scan.journal_buf, scan.offset + OFF_rec_block_no),
                                Slice(scan.journal_buf, scan.offset + OFF_rec_data, BLOCK_SIZE))
               ELSE disk
    /\ scan' = IF LoopContinues(scan) THEN Advance(scan)
               ELSE [scan EXCEPT !.pc = "reset"]
    /\ UNCHANGED <<pre, last, staged, origin, torn, image0, created, repeated>>

\* init_journal, write_journal and the end of cmd_install
InstallReset ==
    /\ scan.pc = "reset"
    /\ disk' = write_journal(disk, init_journal)
    /\ last' = [op |-> "install", status |-> EXIT_SUCCESS, err |-> "none", name |-> <<>>,
                free_inode |-> NOT_FOUND, free_entry |-> NOT_FOUND,
                count |-> scan.transactions_replayed, txns |-> staged,
                prevop |-> last.op, prevstatus |-> last.status, nblocks |-> 0, now |-> 0]
    /\ staged' = <<>>
    /\ scan' = NoScan
    /\ UNCHANGED <<pre, origin, torn, image0, created, repeated>>

\* cmd_install on a journal region without the magic
InstallRefused ==
    /\ scan = NoScan
    /\ ~journal_is_initialized(read_journal(disk))
    /\ Install

\* the operations, one at a time, install being followed step by step
NextScan ==
    \/ /\ scan = NoScan
       /\ \E filename \in FileNames, now \in Times : Create(filename, now)
    \/ InstallRefused
    \/ InstallBegin
    \/ FirstLoopStep
    \/ SecondLoopStep
    \/ InstallReset

\* a started install goes on running
SpecScan ==
    InitScan /\ [][NextScan]_vars
        /\ WF_vars(FirstLoopStep) /\ WF_vars(SecondLoopStep) /\ WF_vars(InstallReset)

\* the same operations, started on any of the given images
InitGiven == \E d \in GivenImages : InitOn(d)

SpecGiven == InitGiven /\ [][Next]_vars

(* ------------- the merge-aware variant, src/unnamed/part_000 ----------- *)
\* its bitmap_find_free: the loop over the bits i, i + 1, .. of the first
\* bytes bytes, up to the first clear one
RECURSIVE merge_find_free_from(_, _, _)
merge_find_free_from(bm, i, bytes) ==
    IF ~(i < bytes * 8) THEN NOT_FOUND
    ELSE IF bitmap_test(bm, i) = 0 THEN i
    ELSE merge_find_free_from(bm, i + 1, bytes)

merge_bitmap_find_free(bm, bytes) == merge_find_free_from(bm, 0, bytes)

\* the three blocks cmd_create reads before it looks at the journal; sb is block 0
merge_read_metadata(d, sb) ==
    [inode_bitmap |-> read_block(d, get_u32(sb, OFF_sb_inode_bitmap)),
     inode_blk |-> read_block(d, get_u32(sb, OFF_sb_inode_start)),
     root_blk |-> read_block(d, get_u32(sb, OFF_sb_data_start))]

\* the memcpy of one data record's payload over the copy its block_no names
merge_overlay(view, sb, block_no, data) ==
    IF block_no = get_u32(sb, OFF_sb_inode_bitmap) THEN [view EXCEPT !.inode_bitmap = data]
    ELSE IF block_no = get_u32(sb, OFF_sb_inode_start) THEN [view EXCEPT !.inode_blk = data]
    ELSE IF block_no = get_u32(sb, OFF_sb_data_start) THEN [view EXCEPT !.root_blk = data]
    ELSE view

\* the replay loop of cmd_create: every data record from off on, in journal order
RECURSIVE merge_overlay_records(_, _, _, _, _)
merge_overlay_records(view, sb, jbuf, off, nbytes_used) ==
    IF ~(off + SIZEOF_rec_header <= nbytes_used) THEN view
    ELSE IF get_u16(jbuf, off + OFF_rec_type) = REC_DATA
    THEN merge_overlay_records(
            merge_overlay(view, sb, get_u32(jbuf, off + OFF_rec_block_no),
                          Slice(jbuf, off + OFF_rec_data, BLOCK_SIZE)),
            sb, jbuf, off + get_u16(jbuf, off + OFF_rec_size), nbytes_used)
    ELSE merge_overlay_records(view, sb, jbuf, off + get_u16(jbuf, off + OFF_rec_size),
                               nbytes_used)

\* inode_bitmap, inode_blk and root_blk as cmd_create holds them when it allocates
merge_view(d, jbuf) ==
    IF get_u32(jbuf, OFF_jhdr_magic) = JOURNAL_MAGIC
    THEN merge_overlay_records(merge_read_metadata(d, read_block(d, 0)), read_block(d, 0), jbuf,
                               SIZEOF_journal_header, get_u32(jbuf, OFF_jhdr_nbytes_used))
    ELSE merge_read_metadata(d, read_block(d, 0))

\* the new inode: memset of the slot, type, links, ctime and mtime
merge_new_inode(new_inode_blk, ino, now) ==
    put_u32(put_u32(put_u16(put_u16(memcpy(new_inode_blk, ino * INODE_SIZE, ZeroMem, INODE_SIZE),
        ino * INODE_SIZE + OFF_inode_type, 1),
        ino * INODE_SIZE + OFF_inode_links, 1),
        ino * INODE_SIZE + OFF_inode_ctime, now),
        ino * INODE_SIZE + OFF_inode_mtime, now)

\* the slot the directory loop stops at: the first whose name starts with a
\* zero byte, NOT_FOUND when every slot has a name
merge_find_slot(root_blk) ==
    first_free({i \in 0..((BLOCK_SIZE \div SIZEOF_dirent) - 1) :
                   Byte(root_blk, i * SIZEOF_dirent + OFF_dirent_name) = 0})

\* d[i].inode = ino; strncpy(d[i].name, name, NAME_LEN - 1); d[i].name[NAME_LEN - 1] = 0
merge_new_entry(new_root_blk, i, ino, name) ==
    put_u8(strncpy(put_u32(new_root_blk, i * SIZEOF_dirent + OFF_dirent_inode, ino),
                   i * SIZEOF_dirent + OFF_dirent_name, name, NAME_LEN - 1),
           i * SIZEOF_dirent + OFF_dirent_name + NAME_LEN - 1, 0)

\* the journal buffer with its header initialised if the magic is missing
merge_init_header(jbuf) ==
    IF get_u32(jbuf, OFF_jhdr_magic) # JOURNAL_MAGIC
    THEN put_u32(put_u32(jbuf, OFF_jhdr_magic, JOURNAL_MAGIC),
                 OFF_jhdr_nbytes_used, SIZEOF_journal_header)
    ELSE jbuf

merge_result(d, status, err, ino, slot) ==
    [disk |-> d, status |-> status, err |-> err, free_inode |-> ino, free_entry |-> slot]

\* cmd_create from the space check on: the transaction of three data
\* records and a commit record, and the write of the 16 journal blocks
merge_create_append(d, sb, view, jbuf, ino, slot, name, now) ==
    IF get_u32(jbuf, OFF_jhdr_nbytes_used) + total_needed > BLOCK_SIZE * JOURNAL_BLOCKS
    THEN merge_result(d, EXIT_SUCCESS, "JournalFull", ino, slot)
    ELSE merge_result(
            write_journal(d, close_txn(append_commit_record(
                append_data_record(
                append_data_record(
                append_data_record(<<jbuf, get_u32(jbuf, OFF_jhdr_nbytes_used)>>,
                    get_u32(sb, OFF_sb_inode_bitmap), bitmap_set(view.inode_bitmap, ino)),
                    get_u32(sb, OFF_sb_inode_start), merge_new_inode(view.inode_blk, ino, now)),
                    get_u32(sb, OFF_sb_data_start),
                    merge_new_entry(view.root_blk, slot, ino, name))))),
            EXIT_SUCCESS, "none", ino, slot)

\* cmd_create once the directory loop has ended at slot, or found none
merge_create_slot(d, view, jbuf, ino, slot, name, now) ==
    IF slot = NOT_FOUND THEN merge_result(d, EXIT_SUCCESS, "DirFull", ino, NOT_FOUND)
    ELSE merge_create_append(d, read_block(d, 0), view, merge_init_header(jbuf),
                             ino, slot, name, now)

\* cmd_create once bitmap_find_free has returned ino
merge_create_inode(d, view, jbuf, ino, name, now) ==
    IF ino < 0 THEN merge_result(d, EXIT_SUCCESS, "NoFreeInode", NOT_FOUND, NOT_FOUND)
    ELSE merge_create_slot(d, view, jbuf, ino, merge_find_slot(view.root_blk), name, now)

\* cmd_create with the merged copies in hand
merge_create_view(d, view, jbuf, name, now) ==
    merge_create_inode(d, view, jbuf, merge_bitmap_find_free(view.inode_bitmap, BLOCK_SIZE),
                       name, now)

\* ./journal create <name> of the variant: main returns 1 on a wrong
\* superblock magic and 0 otherwise, whatever cmd_create returns
merge_cmd_create(d, name, now) ==
    IF get_u32(read_block(d, 0), OFF_sb_magic) # FS_MAGIC
    THEN merge_result(d, EXIT_FAILURE, "InvalidImage", NOT_FOUND, NOT_FOUND)
    ELSE merge_create_view(d, merge_view(d, read_journal(d)), read_journal(d), name, now)

\* the header block, then JOURNAL_BLOCKS - 1 blocks of zeros, from block jblk on
clear_journal(d, jblk) ==
    [b \in DOMAIN d |->
        IF b = jblk
        THEN put_u32(put_u32(ZeroMem, OFF_jhdr_magic, JOURNAL_MAGIC),
                     OFF_jhdr_nbytes_used, SIZEOF_journal_header)
        ELSE IF b \in (jblk + 1)..(jblk + JOURNAL_BLOCKS - 1) THEN ZeroMem
        ELSE d[b]]

\* the loop of cmd_install: the image and records_applied after it
RECURSIVE merge_apply_records(_, _, _, _, _)
merge_apply_records(d, jbuf, off, nbytes_used, records_applied) ==
    IF ~(off + SIZEOF_rec_header <= nbytes_used) THEN <<d, records_applied>>
    ELSE IF get_u16(jbuf, off + OFF_rec_type) = REC_DATA
    THEN merge_apply_records(
            write_block(d, get_u32(jbuf, off + OFF_rec_block_no),
                        Slice(jbuf, off + OFF_rec_data, BLOCK_SIZE)),
            jbuf, off + get_u16(jbuf, off + OFF_rec_size), nbytes_used, records_applied + 1)
    ELSE IF get_u16(jbuf, off + OFF_rec_type) = REC_COMMIT
    THEN merge_apply_records(d, jbuf, off + get_u16(jbuf, off + OFF_rec_size), nbytes_used,
                             records_applied)
    ELSE <<d, records_applied>>

\* cmd_install after its loop; transactions_replayed holds records_applied
merge_install_clear(applied, jblk) ==
    [disk |-> clear_journal(applied[1], jblk), status |-> EXIT_SUCCESS,
     transactions_replayed |-> applied[2]]

\* ./journal install of the variant
merge_cmd_install(d) ==
    IF get_u32(read_block(d, 0), OFF_sb_magic) # FS_MAGIC
    THEN [disk |-> d, status |-> EXIT_FAILURE, transactions_replayed |-> 0]
    ELSE IF get_u32(read_journal(d), OFF_jhdr_magic) # JOURNAL_MAGIC
    THEN [disk |-> d, status |-> EXIT_SUCCESS, transactions_replayed |-> 0]
    ELSE merge_install_clear(
            merge_apply_records(d, read_journal(d), SIZEOF_journal_header,
                                get_u32(read_journal(d), OFF_jhdr_nbytes_used), 0),
            get_u32(read_block(d, 0), OFF_sb_journal_block))

\* ./journal create <filename> of the variant, run to its end at time now
CreateMerged(filename, now) == Created(filename, now, merge_cmd_create(disk, filename, now))

\* ./journal install of the variant, run to its end
InstallMerged == Installed(merge_cmd_install(disk))

\* the operations of the variant; creates are followed while the inode they
\* find is one of the first MaxMergeInodes file inodes
NextMerge ==
    \/ /\ merge_bitmap_find_free(merge_view(disk, read_journal(disk)).inode_bitmap, BLOCK_SIZE)
             <= MaxMergeInodes
       /\ \E filename \in FileNames \cup {EmptyName}, now \in Times :
             CreateMerged(filename, now)
    \/ InstallMerged

SpecMerge == Init /\ [][NextMerge]_vars

(* ------------------------- reading an image ---------------------------- *)
JournalBlockSet == JOURNAL_BLOCK_IDX..(JOURNAL_BLOCK_IDX + JOURNAL_BLOCKS - 1)

\* the blocks outside the journal region
OutsideJournal(d) == [b \in (DOMAIN d) \ JournalBlockSet |-> d[b]]

\* the journal region
JournalRegion(d) == [b \in JournalBlockSet |-> d[b]]

\* the root directory data block and its entries
RootDir(d) == d[get_u32(d[INODE_START_IDX], OFF_inode_direct)]
DirSlots == 0..((BLOCK_SIZE \div SIZEOF_dirent) - 1)
EntryBytes(dir, i) == Slice(dir, i * SIZEOF_dirent, SIZEOF_dirent)
EntryInode(dir, i) == get_u32(dir, i * SIZEOF_dirent + OFF_dirent_inode)
EntryNamed(dir, i, name) == strcmp_eq(dir, i * SIZEOF_dirent + OFF_dirent_name, name)
EntryUnused(dir, i) ==
    EntryInode(dir, i) = 0 /\ Byte(dir, i * SIZEOF_dirent + OFF_dirent_name) = 0
EntriesInUse(dir) == {i \in DirSlots : ~EntryUnused(dir, i)}

\* inode number ino of the image
InodeBytes(d, ino) ==
    Slice(d[INODE_START_IDX + (ino \div (BLOCK_SIZE \div INODE_SIZE))],
          (ino % (BLOCK_SIZE \div INODE_SIZE)) * INODE_SIZE, INODE_SIZE)
InodeAllocated(d, ino) == bitmap_test(d[INODE_BMAP_IDX], ino) = 1

\* the journal header of the image: is the magic there, and nbytes_used
HasJournal(d) == get_u32(d[JOURNAL_BLOCK_IDX], OFF_jhdr_magic) = JOURNAL_MAGIC
NbytesUsed(d) == get_u32(d[JOURNAL_BLOCK_IDX], OFF_jhdr_nbytes_used)

\* nbytes_used as create sees it: the header's when the magic is there, else a fresh header's
UsedBytes(d) == IF HasJournal(d) THEN NbytesUsed(d) ELSE SIZEOF_journal_header

\* the size of a transaction: its data records and its commit record
TxnBytes == 3 * SIZEOF_data_record + SIZEOF_commit_record

\* walking the records from offset by their declared sizes lands exactly on nbytes_used
RECURSIVE WalkLands(_, _, _)
WalkLands(journal_buf, offset, nbytes_used) ==
    IF offset = nbytes_used THEN TRUE
    ELSE IF offset + SIZEOF_rec_header > nbytes_used THEN FALSE
    ELSE /\ get_u16(journal_buf, offset + OFF_rec_type) \in {REC_DATA, REC_COMMIT}
         /\ get_u16(journal_buf, offset + OFF_rec_size) >= SIZEOF_rec_header
         /\ offset + get_u16(journal_buf, offset + OFF_rec_size) <= nbytes_used
         /\ WalkLands(journal_buf, offset + get_u16(journal_buf, offset + OFF_rec_size),
                      nbytes_used)

DistinctNames(txns) ==
    \A i, j \in 1..Len(txns) : i # j => txns[i].name # txns[j].name

(* ------------------------------- claims -------------------------------- *)
\* C1: a create, successful or rejected, leaves every block outside the
\* journal region with the content it had before the call.
C1_IsolationBeforeInstall ==
    last.op = "create" => OutsideJournal(disk) = OutsideJournal(pre)

C1_Witness ==
    last.op = "create" /\ last.status = EXIT_SUCCESS /\ JournalRegion(disk) # JournalRegion(pre)

\* the root directory after holds the entries of before and the one of t;
\* inode is the inode of t as installed
OneEntryMore(t, before, after, inode) ==
    /\ t.free_entry \notin EntriesInUse(before)
    /\ EntriesInUse(after) = EntriesInUse(before) \cup {t.free_entry}
    /\ EntryInode(after, t.free_entry) = t.free_inode
    /\ EntryNamed(after, t.free_entry, t.name)
    /\ \A i \in EntriesInUse(before) : EntryBytes(after, i) = EntryBytes(before, i)
    /\ get_u16(inode, OFF_inode_type) = INODE_FILE
    /\ get_u16(inode, OFF_inode_links) = 1
    /\ get_u32(inode, OFF_inode_size) = 0
    /\ Slice(inode, OFF_inode_direct, DIRECT_POINTERS * 4) = ZeroMem

\* C2: create(name) on an empty journal followed by install adds exactly one
\* root directory entry {allocated inode, name}, sets the inode's bitmap bit,
\* leaves the inode with type File, links 1, size 0 and empty direct
\* pointers, and keeps every entry that existed before unchanged.
C2_RoundTrip ==
    (last.op = "install" /\ last.status = EXIT_SUCCESS /\ Len(last.txns) = 1) =>
        /\ OneEntryMore(last.txns[1], RootDir(origin), RootDir(disk),
                        InodeBytes(disk, last.txns[1].free_inode))
        /\ InodeAllocated(disk, last.txns[1].free_inode)
        /\ ~InodeAllocated(origin, last.txns[1].free_inode)

C2_Witness ==
    /\ last.op = "install" /\ last.status = EXIT_SUCCESS /\ Len(last.txns) = 1
    /\ EntriesInUse(RootDir(origin)) # {}
    /\ Cardinality(EntriesInUse(RootDir(disk))) = Cardinality(EntriesInUse(RootDir(origin))) + 1

\* C3: two successful creates with distinct names and no install between
\* them never allocate the same inode number nor the same directory slot.
C3_PendingAllocationsObserved ==
    \A i, j \in 1..Len(staged) :
        (i < j /\ staged[i].name # staged[j].name) =>
            /\ staged[i].free_inode # staged[j].free_inode
            /\ staged[i].free_entry # staged[j].free_entry

\* C4: a second successful create of the same name before any install
\* allocates an inode different from the first one's.
C4_DuplicateBeforeInstall ==
    \A i, j \in 1..Len(staged) :
        (i < j /\ staged[i].name = staged[j].name) =>
            staged[i].free_inode # staged[j].free_inode

\* C5: after k successful creates with pairwise distinct names and an
\* install, the root directory holds an entry for each of the k names, each
\* with its own inode.
C5_NoStagedCreateLost ==
    (last.op = "install" /\ last.status = EXIT_SUCCESS /\ DistinctNames(last.txns)) =>
        /\ \A k \in 1..Len(last.txns) :
              \E i \in EntriesInUse(RootDir(disk)) :
                  /\ EntryNamed(RootDir(disk), i, last.txns[k].name)
                  /\ EntryInode(RootDir(disk), i) = last.txns[k].free_inode
        /\ \A k, l \in 1..Len(last.txns) :
              k # l => last.txns[k].free_inode # last.txns[l].free_inode

\* C6: an install that follows a create interrupted inside its journal
\* write-back leaves the blocks outside the journal either as an install
\* without that create, or as an install after the complete create, would.
C6_CrashAtomicity ==
    (last.op = "install" /\ last.status = EXIT_SUCCESS /\ last.prevop = "create_crash") =>
        \/ OutsideJournal(disk) = OutsideJournal(cmd_install(torn.disk0).disk)
        \/ OutsideJournal(disk) =
              OutsideJournal(cmd_install(cmd_create(torn.disk0, torn.name, torn.now).disk).disk)

\* C7: an install that follows a completed install changes no block of the
\* image and reports zero transactions.
C7_IdempotentReplay ==
    (/\ last.op = "install" /\ last.status = EXIT_SUCCESS
     /\ last.prevop = "install" /\ last.prevstatus = EXIT_SUCCESS) =>
        disk = pre /\ last.count = 0

C7_Witness ==
    /\ last.op = "install" /\ last.status = EXIT_SUCCESS
    /\ last.prevop = "install" /\ last.prevstatus = EXIT_SUCCESS
    /\ EntriesInUse(RootDir(disk)) # {}

\* C8: a rejected create ends with a nonzero exit status and leaves every
\* block of the image, journal region included, as it was.
C8_FailureAtomicity ==
    (last.op = "create" /\ last.err # "none") =>
        last.status # EXIT_SUCCESS /\ disk = pre

C8_Witness ==
    last.op = "create" /\ last.err = "NoFreeInode" /\ ~HasJournal(pre)

\* C9: a create that passed the other checks is rejected with JournalFull,
\* the journal region unchanged, exactly when nbytes_used plus the size of
\* the whole transaction exceeds the journal size; otherwise it is admitted
\* and nbytes_used grows by the size of the whole transaction.
C9_CapacityAdmission ==
    (last.op = "create" /\ last.err \in {"none", "JournalFull"}) =>
        IF UsedBytes(pre) + TxnBytes > JOURNAL_SIZE
        THEN last.err = "JournalFull" /\ JournalRegion(disk) = JournalRegion(pre)
        ELSE last.err = "none" /\ UsedBytes(disk) = UsedBytes(pre) + TxnBytes

C9_Witness ==
    /\ last.op = "create" /\ last.err = "JournalFull"
    /\ UsedBytes(pre) + TxnBytes > JOURNAL_SIZE
    /\ UsedBytes(pre) + SIZEOF_commit_record <= JOURNAL_SIZE
    /\ disk = pre

\* C10: whenever the journal header is there, header size <= nbytes_used <=
\* journal size, and walking the records from just after the header by their
\* declared sizes visits only Data and Commit records and lands exactly on
\* nbytes_used.
C10_FramingIntegrity ==
    HasJournal(disk) =>
        /\ SIZEOF_journal_header <= NbytesUsed(disk)
        /\ NbytesUsed(disk) <= JOURNAL_SIZE
        /\ WalkLands(read_journal(disk), SIZEOF_journal_header, NbytesUsed(disk))

C10_Witness ==
    HasJournal(disk) /\ NbytesUsed(disk) = SIZEOF_journal_header + 2 * TxnBytes

\* the image after the records that lie wholly below nbytes_used have been
\* applied in journal order, the walk stopping at the first record of
\* unknown type and at the first record that runs past nbytes_used
RECURSIVE AppliedWithin(_, _, _, _)
AppliedWithin(d, journal_buf, offset, nbytes_used) ==
    IF offset + SIZEOF_rec_header > nbytes_used THEN d
    ELSE IF get_u16(journal_buf, offset + OFF_rec_size) < SIZEOF_rec_header THEN d
    ELSE IF offset + get_u16(journal_buf, offset + OFF_rec_size) > nbytes_used THEN d
    ELSE IF get_u16(journal_buf, offset + OFF_rec_type) = REC_DATA
         THEN IF offset + SIZEOF_data_record > nbytes_used THEN d
              ELSE AppliedWithin(
                      write_block(d, get_u32(journal_buf, offset + OFF_rec_block_no),
                                  Slice(journal_buf, offset + OFF_rec_data, BLOCK_SIZE)),
                      journal_buf, offset + get_u16(journal_buf, offset + OFF_rec_size),
                      nbytes_used)
    ELSE IF get_u16(journal_buf, offset + OFF_rec_type) = REC_COMMIT
         THEN AppliedWithin(d, journal_buf,
                            offset + get_u16(journal_buf, offset + OFF_rec_size), nbytes_used)
    ELSE d

\* C11: a successful install leaves the blocks outside the journal as the
\* records lying wholly below nbytes_used make them: a record that runs past
\* nbytes_used stops the scan and none of its bytes is written to a block.
C11_ReplayWithinUsedBytes ==
    (last.op = "install" /\ last.status = EXIT_SUCCESS) =>
        OutsideJournal(disk) =
            OutsideJournal(AppliedWithin(pre, read_journal(pre), SIZEOF_journal_header,
                                         NbytesUsed(pre)))

\* the number of commit records among the records walked from offset, the
\* walk stopping at the first record of unknown type and at the first record
\* that runs past nbytes_used
RECURSIVE CommitsScanned(_, _, _)
CommitsScanned(journal_buf, offset, nbytes_used) ==
    IF offset + SIZEOF_rec_header > nbytes_used THEN 0
    ELSE IF get_u16(journal_buf, offset + OFF_rec_size) < SIZEOF_rec_header THEN 0
    ELSE IF offset + get_u16(journal_buf, offset + OFF_rec_size) > nbytes_used THEN 0
    ELSE IF get_u16(journal_buf, offset + OFF_rec_type) = REC_COMMIT
         THEN 1 + CommitsScanned(journal_buf,
                                 offset + get_u16(journal_buf, offset + OFF_rec_size), nbytes_used)
    ELSE IF get_u16(journal_buf, offset + OFF_rec_type) = REC_DATA
         THEN CommitsScanned(journal_buf,
                             offset + get_u16(journal_buf, offset + OFF_rec_size), nbytes_used)
    ELSE 0

\* C12: a successful install reports the number of commit records in the
\* scanned part of the journal, and, when the journal was empty before the
\* first of the k successful creates staged since, it reports k.
C12_ReportsCommitCount ==
    (last.op = "install" /\ last.status = EXIT_SUCCESS) =>
        /\ last.count = CommitsScanned(read_journal(pre), SIZEOF_journal_header, NbytesUsed(pre))
        /\ (last.txns # <<>> /\ UsedBytes(origin) = SIZEOF_journal_header) =>
               last.count = Len(last.txns)

C12_Witness ==
    /\ last.op = "install" /\ last.status = EXIT_SUCCESS
    /\ UsedBytes(origin) = SIZEOF_journal_header
    /\ Len(last.txns) = 2 /\ last.count = 2

\* the journal region is an empty journal: the magic, nbytes_used equal to
\* the header size, every other byte zero
EmptyJournal(d) ==
    /\ HasJournal(d)
    /\ NbytesUsed(d) = SIZEOF_journal_header
    /\ \A b \in JournalBlockSet :
          \A o \in DOMAIN d[b] : b = JOURNAL_BLOCK_IDX /\ o < SIZEOF_journal_header

\* C13: every install that found the journal magic and finished scanning,
\* whatever records the journal held, leaves the journal region empty.
C13_UnconditionalReset ==
    (last.op = "install" /\ last.status = EXIT_SUCCESS) => EmptyJournal(disk)

C13_Witness ==
    /\ last.op = "install" /\ last.status = EXIT_SUCCESS
    /\ last.count = 0
    /\ NbytesUsed(pre) = SIZEOF_journal_header + OFF_rec_data + 100
    /\ EmptyJournal(disk)

\* C14: the first operation to use an image whose journal region lacks the
\* magic initialises the journal and proceeds: an install succeeds and leaves
\* an empty journal, a create that passes its checks leaves a journal holding
\* its transaction; the missing magic is never an error.
C14_LazyInitialization ==
    /\ (last.op = "install" /\ ~HasJournal(pre)) =>
           last.status = EXIT_SUCCESS /\ EmptyJournal(disk)
    /\ (last.op = "create" /\ last.err = "none" /\ ~HasJournal(pre)) =>
           HasJournal(disk) /\ NbytesUsed(disk) = SIZEOF_journal_header + TxnBytes

\* the superblock of the image carries the file system magic
ValidImage(d) == get_u32(d[0], OFF_sb_magic) = FS_MAGIC

\* some entry of the directory block carries the name
NamePresent(dir, name) == \E i \in DirSlots : ~EntryUnused(dir, i) /\ EntryNamed(dir, i, name)

\* the inodes below inode_count whose bitmap bit is clear
FreeInodes(d) ==
    {i \in 0..(get_u32(d[0], OFF_sb_inode_count) - 1) : ~InodeAllocated(d, i)}

\* the first precondition of create that fails on image d for name, in the
\* order superblock magic, duplicate name, free inode, free directory slot
FirstFailure(d, name) ==
    IF ~ValidImage(d) THEN "InvalidImage"
    ELSE IF NamePresent(RootDir(d), name) THEN "DuplicateName"
    ELSE IF FreeInodes(d) = {} THEN "NoFreeInode"
    ELSE IF EntriesInUse(RootDir(d)) = DirSlots THEN "NoFreeDirectorySlot"
    ELSE "none"

\* C15: a create of an admissible name whose preconditions do not all hold
\* fails with the first failure in the order superblock magic, duplicate
\* name, free inode, free directory slot.
C15_PreconditionOrder ==
    (last.op = "create" /\ strlen(last.name) < NAME_LEN /\ FirstFailure(pre, last.name) # "none") =>
        last.err = FirstFailure(pre, last.name)

\* C16: on a valid image with a free inode, create(name) fails with
\* DuplicateName when some entry of the root directory block carries the
\* name, wherever that entry lies, and does not fail with DuplicateName when
\* no entry carries it.
C16_DuplicateDetection ==
    (last.op = "create" /\ strlen(last.name) < NAME_LEN /\ ValidImage(pre)) =>
        /\ (NamePresent(RootDir(pre), last.name) /\ FreeInodes(pre) # {}) =>
               last.err = "DuplicateName"
        /\ ~NamePresent(RootDir(pre), last.name) => last.err # "DuplicateName"

\* C17: while the successful creates had pairwise distinct names, there are
\* never more of them than inodes were free in the initial image, and a
\* create fails with NoFreeInode only once there are that many.
C17_InodeExhaustion ==
    (last.op = "create" /\ ~repeated /\ ValidImage(image0)) =>
        /\ Cardinality(created) <= Cardinality(FreeInodes(image0))
        /\ last.err = "NoFreeInode" => Cardinality(created) = Cardinality(FreeInodes(image0))

\* what the records walked from offset by their declared sizes are: the
\* target block of a data record, "commit" for a commit record
RECURSIVE RecordsFrom(_, _, _)
RecordsFrom(journal_buf, offset, nbytes_used) ==
    IF offset + SIZEOF_rec_header > nbytes_used THEN <<>>
    ELSE IF get_u16(journal_buf, offset + OFF_rec_size) < SIZEOF_rec_header THEN <<>>
    ELSE IF get_u16(journal_buf, offset + OFF_rec_type) = REC_DATA
         THEN <<get_u32(journal_buf, offset + OFF_rec_block_no)>>
              \o RecordsFrom(journal_buf, offset + get_u16(journal_buf, offset + OFF_rec_size),
                             nbytes_used)
    ELSE IF get_u16(journal_buf, offset + OFF_rec_type) = REC_COMMIT
         THEN <<"commit">>
              \o RecordsFrom(journal_buf, offset + get_u16(journal_buf, offset + OFF_rec_size),
                             nbytes_used)
    ELSE <<"unknown">>

\* the inode-table block that holds inode ino
InodeBlockOf(ino) == INODE_START_IDX + (ino \div (BLOCK_SIZE \div INODE_SIZE))

\* the blocks a create that allocates inode ino on image d has to journal
TxnBlocks(d, ino) ==
    {INODE_BMAP_IDX, InodeBlockOf(ino), InodeBlockOf(0),
     get_u32(d[INODE_START_IDX], OFF_inode_direct)}

\* recs is one transaction on the blocks of targets: a data record for each
\* of them and no other, then one commit record
OneTransaction(recs, targets) ==
    /\ Len(recs) = Cardinality(targets) + 1
    /\ {recs[i] : i \in 1..(Len(recs) - 1)} = targets
    /\ recs[Len(recs)] = "commit"

\* C18: the records a successful create appends are one transaction: data
\* records for the inode bitmap block, the inode-table block of the new
\* inode, the root inode's block when that is another block, and the root
\* directory block, then one commit record.
C18_TransactionComposition ==
    (last.op = "create" /\ last.err = "none") =>
        OneTransaction(RecordsFrom(read_journal(disk), UsedBytes(pre), NbytesUsed(disk)),
                       TxnBlocks(pre, last.free_inode))

\* the size and the mtime of the root inode of the image
RootSize(d) == get_u32(d[INODE_START_IDX], OFF_inode_size)
RootMtime(d) == get_u32(d[INODE_START_IDX], OFF_inode_mtime)

\* C19: after one create on an empty journal and its install, the root
\* inode's size is the size before plus the size of one directory entry and
\* its mtime is the time of the create, whichever inode-table block the new
\* inode is in.
C19_RootInodeAccounting ==
    (/\ last.op = "install" /\ last.status = EXIT_SUCCESS
     /\ Len(last.txns) = 1 /\ UsedBytes(origin) = SIZEOF_journal_header) =>
        /\ RootSize(disk) = RootSize(origin) + SIZEOF_dirent
        /\ RootMtime(disk) = last.txns[1].now

\* C20: an install during which a block write fails ends with a nonzero exit
\* status and has written the blocks written before the failure and no other.
C20_IOFailureAborts ==
    last.op = "install_io" =>
        /\ last.status # EXIT_SUCCESS
        /\ disk = apply_records_upto(pre, read_journal(pre), SIZEOF_journal_header,
                                     NbytesUsed(pre), last.nblocks - 1)

\* C21: a create succeeds only for a name of 1 to NAME_LEN - 1 characters;
\* for the empty name and for a name of NAME_LEN or more characters it fails
\* and stages nothing.
C21_FilenameValidation ==
    last.op = "create" =>
        /\ last.err = "none" => (strlen(last.name) >= 1 /\ strlen(last.name) < NAME_LEN)
        /\ (strlen(last.name) = 0 \/ strlen(last.name) >= NAME_LEN) =>
               (last.status # EXIT_SUCCESS /\ disk = pre)

\* the offset of the first record of a type that is neither Data nor Commit
\* that a scan from offset meets below nbytes_used, NOT_FOUND when it meets none
RECURSIVE UnknownAt(_, _, _)
UnknownAt(journal_buf, offset, nbytes_used) ==
    IF offset + SIZEOF_rec_header > nbytes_used THEN NOT_FOUND
    ELSE IF get_u16(journal_buf, offset + OFF_rec_type) \notin {REC_DATA, REC_COMMIT} THEN offset
    ELSE IF get_u16(journal_buf, offset + OFF_rec_size) = 0 THEN NOT_FOUND
    ELSE UnknownAt(journal_buf, offset + get_u16(journal_buf, offset + OFF_rec_size), nbytes_used)

\* the install that met a record of unknown type at offset at has succeeded,
\* applied the data records before at and no other, counted the commit
\* records before at, and reset the journal
StoppedAt(journal_buf, at) ==
    /\ last.status = EXIT_SUCCESS
    /\ OutsideJournal(disk) =
          OutsideJournal(AppliedWithin(pre, journal_buf, SIZEOF_journal_header, at))
    /\ last.count = CommitsScanned(journal_buf, SIZEOF_journal_header, at)
    /\ EmptyJournal(disk)

\* the install scanned a journal in which it met a record of unknown type at offset at
MetUnknown(at) == last.op = "install" /\ HasJournal(pre) /\ at # NOT_FOUND

\* C22: an install that meets a record of unknown type stops scanning there:
\* it has applied exactly the data records that precede the record, counted
\* exactly the commit records that precede it, reset the journal and succeeded.
C22_UnknownRecordNonFatal ==
    MetUnknown(UnknownAt(read_journal(pre), SIZEOF_journal_header, NbytesUsed(pre))) =>
        StoppedAt(read_journal(pre),
                  UnknownAt(read_journal(pre), SIZEOF_journal_header, NbytesUsed(pre)))

C22_Witness ==
    /\ last.op = "install" /\ last.status = EXIT_SUCCESS /\ last.count = 1
    /\ pre = journal_image(close_txn(around_unknown_record))
    /\ disk[given_block] = given_payload
    /\ disk[given_block + 1] = ZeroMem

\* the offsets of the data records the scan from offset walks over
RECURSIVE ScannedData(_, _, _)
ScannedData(journal_buf, offset, nbytes_used) ==
    IF offset + SIZEOF_rec_header > nbytes_used THEN {}
    ELSE IF get_u16(journal_buf, offset + OFF_rec_size) = 0 THEN {}
    ELSE IF get_u16(journal_buf, offset + OFF_rec_type) = REC_DATA
         THEN {offset} \cup ScannedData(journal_buf,
                                        offset + get_u16(journal_buf, offset + OFF_rec_size),
                                        nbytes_used)
    ELSE IF get_u16(journal_buf, offset + OFF_rec_type) = REC_COMMIT
         THEN ScannedData(journal_buf, offset + get_u16(journal_buf, offset + OFF_rec_size),
                          nbytes_used)
    ELSE {}

\* the target block and the payload of the data record at offset at
TargetOf(journal_buf, at) == get_u32(journal_buf, at + OFF_rec_block_no)
PayloadOf(journal_buf, at) == Slice(journal_buf, at + OFF_rec_data, BLOCK_SIZE)

\* every block outside the journal that a data record at one of the offsets
\* targets holds the payload of a data record that targets it
EveryTargetWritten(d, journal_buf, offsets) ==
    \A at \in offsets :
        TargetOf(journal_buf, at) \in (DOMAIN d) \ JournalBlockSet =>
            \E by \in offsets :
                /\ TargetOf(journal_buf, by) = TargetOf(journal_buf, at)
                /\ d[TargetOf(journal_buf, at)] = PayloadOf(journal_buf, by)

\* C23: a successful install has written the payload of every data record it
\* scanned to the record's target block, whether or not a commit record
\* follows the data record.
C23_AppliesUncommittedRecords ==
    (last.op = "install" /\ last.status = EXIT_SUCCESS) =>
        EveryTargetWritten(disk, read_journal(pre),
                           ScannedData(read_journal(pre), SIZEOF_journal_header, NbytesUsed(pre)))

C23_Witness ==
    /\ last.op = "install" /\ last.status = EXIT_SUCCESS /\ last.count = 0
    /\ pre = journal_image(close_txn(one_data_record))
    /\ disk[given_block] = given_payload

\* the root directory entries in use that name an inode other than the root directory's
FileEntries(dir) == {i \in EntriesInUse(dir) : EntryInode(dir, i) # 0}

\* the inodes whose bitmap bit is set in image d and was clear in image d0
NewlyAllocated(d, d0) ==
    {i \in 0..(get_u32(d[0], OFF_sb_inode_count) - 1) :
        InodeAllocated(d, i) /\ ~InodeAllocated(d0, i)}

\* in image d every file entry of the root directory names an allocated
\* inode of type File, no two of them name the same inode, and every inode
\* allocated since image d0 is named by one of them
AllocationConsistent(d, dir, d0) ==
    /\ \A i \in FileEntries(dir) :
          /\ InodeAllocated(d, EntryInode(dir, i))
          /\ get_u16(InodeBytes(d, EntryInode(dir, i)), OFF_inode_type) = INODE_FILE
    /\ \A i, j \in FileEntries(dir) : i # j => EntryInode(dir, i) # EntryInode(dir, j)
    /\ \A ino \in NewlyAllocated(d, d0) : \E i \in FileEntries(dir) : EntryInode(dir, i) = ino

C25_InterruptedInstallRecovers ==
    (last.op = "install" /\ last.prevop = "install_crash") =>
        /\ last.status = EXIT_SUCCESS
        /\ OutsideJournal(disk) = OutsideJournal(cmd_install(torn.disk0).disk)
        /\ EmptyJournal(disk)

C25_Witness ==
    /\ last.op = "install" /\ last.prevop = "install_crash" /\ last.status = EXIT_SUCCESS
    /\ OutsideJournal(pre) # OutsideJournal(torn.disk0)
    /\ OutsideJournal(pre) # OutsideJournal(disk)

\* the last of the data records at the offsets that targets block b
LastFor(journal_buf, offsets, b) ==
    CHOOSE at \in offsets :
        /\ TargetOf(journal_buf, at) = b
        /\ \A by \in offsets : TargetOf(journal_buf, by) = b => by <= at

\* every block outside the journal that a data record at one of the offsets
\* targets holds the payload of the last data record that targets it
LastRecordWins(d, journal_buf, offsets) ==
    \A b \in {TargetOf(journal_buf, at) : at \in offsets} \cap ((DOMAIN d) \ JournalBlockSet) :
        d[b] = PayloadOf(journal_buf, LastFor(journal_buf, offsets, b))

\* C26: after a successful install every block targeted by data records
\* holds the payload of the last of them in the journal; and in an
\* interrupted install no journal block has been rewritten before every data
\* record has been applied.
C26_ReplayOrder ==
    /\ (last.op = "install" /\ last.status = EXIT_SUCCESS) =>
           LastRecordWins(disk, read_journal(pre),
                          ScannedData(read_journal(pre), SIZEOF_journal_header, NbytesUsed(pre)))
    /\ (last.op = "install_crash" /\ JournalRegion(disk) # JournalRegion(pre)) =>
           OutsideJournal(disk) = OutsideJournal(cmd_install(pre).disk)

C26_Witness ==
    /\ last.op = "install" /\ last.status = EXIT_SUCCESS /\ last.prevop = "create"
    /\ Len(last.txns) = 2 /\ last.txns[1].name # last.txns[2].name
    /\ EntryNamed(RootDir(disk), last.txns[2].free_entry, last.txns[2].name)

\* the blocks outside the journal whose content differs between images d and d0
ChangedBlocks(d, d0) == {b \in (DOMAIN d) \ JournalBlockSet : d[b] # d0[b]}

\* the inode-table blocks
InodeTableBlocks == INODE_START_IDX..(INODE_START_IDX + INODE_BLOCKS - 1)

\* the inode slots in which inode-table block b differs between images d and d0
ChangedInodes(d, d0, b) ==
    {(b - INODE_START_IDX) * (BLOCK_SIZE \div INODE_SIZE) + (o \div INODE_SIZE) :
        o \in {i \in (DOMAIN d[b]) \cup (DOMAIN d0[b]) : Byte(d[b], i) # Byte(d0[b], i)}}

\* the data records at the offsets target the inode bitmap, the inode table
\* or the root directory block of image d, and no other block
TargetsMetadata(d, journal_buf, offsets) ==
    {TargetOf(journal_buf, at) : at \in offsets}
        \subseteq {INODE_BMAP_IDX} \cup InodeTableBlocks
                      \cup {get_u32(d[INODE_START_IDX], OFF_inode_direct)}

\* C27: the data records staged by a create target the inode bitmap block,
\* an inode-table block or the root directory block only; after the install
\* of the creates staged on an empty journal no other block outside the
\* journal differs from what it was, and in the inode table only the slots
\* of the new inodes and of the root inode differ.
C27_CreateInstallFrame ==
    /\ (last.op = "create" /\ last.err = "none") =>
           TargetsMetadata(pre, read_journal(disk),
                           ScannedData(read_journal(disk), UsedBytes(pre), NbytesUsed(disk)))
    /\ (last.op = "install" /\ last.status = EXIT_SUCCESS /\ last.txns # <<>>) =>
           /\ ChangedBlocks(disk, origin)
                 \subseteq {INODE_BMAP_IDX} \cup InodeTableBlocks
                               \cup {get_u32(origin[INODE_START_IDX], OFF_inode_direct)}
           /\ \A b \in InodeTableBlocks :
                 ChangedInodes(disk, origin, b)
                     \subseteq {0} \cup {last.txns[k].free_inode : k \in 1..Len(last.txns)}

C27_Witness ==
    /\ last.op = "install" /\ last.status = EXIT_SUCCESS /\ Len(last.txns) = 1
    /\ ChangedBlocks(disk, origin) = {INODE_BMAP_IDX, INODE_START_IDX, DATA_START_IDX}
    /\ ChangedInodes(disk, origin, INODE_START_IDX) = {0, last.txns[1].free_inode}

\* C28: a successful create allocates the lowest inode below inode_count
\* whose bit is clear in the on-disk bitmap and the lowest unused slot of the
\* root directory block; and a create of an admissible name on a valid image
\* fails with NoFreeInode exactly when no bit below inode_count is clear.
C28_FirstFitAllocation ==
    /\ (last.op = "create" /\ last.err = "none") =>
           /\ last.free_inode \in FreeInodes(pre)
           /\ \A i \in FreeInodes(pre) : last.free_inode <= i
           /\ EntryUnused(RootDir(pre), last.free_entry)
           /\ \A i \in 0..(last.free_entry - 1) : ~EntryUnused(RootDir(pre), i)
    /\ (last.op = "create" /\ strlen(last.name) < NAME_LEN /\ ValidImage(pre)) =>
           (last.err = "NoFreeInode" <=> FreeInodes(pre) = {})

C28_Witness ==
    /\ last.op = "create" /\ last.err = "none"
    /\ last.free_inode = 2 /\ last.free_entry = 0
    /\ ~EntryUnused(RootDir(pre), 1)

\* C29: the journal holds the transactions of the successful creates since
\* it was last empty and nothing else, never more than 5 of them; a create
\* that passed the other checks is rejected with JournalFull exactly when 5
\* are staged; and the size field of every record holds the record's size.
C29_CapacityInTransactions ==
    /\ HasJournal(disk) => NbytesUsed(disk) = SIZEOF_journal_header + Len(staged) * TxnBytes
    /\ Len(staged) <= 5
    /\ (last.op = "create" /\ last.err \in {"none", "JournalFull"}) =>
           (last.err = "JournalFull" <=> (Len(staged) = 5 /\ disk = pre))
    /\ \A at \in ScannedData(read_journal(disk), SIZEOF_journal_header, UsedBytes(disk)) :
           get_u16(read_journal(disk), at + OFF_rec_size) = SIZEOF_data_record

C29_Witness ==
    /\ last.op = "create" /\ last.err = "JournalFull" /\ Len(staged) = 5
    /\ NbytesUsed(disk) = SIZEOF_journal_header + 5 * TxnBytes

\* C30: an iteration of a scanning loop of install that stays in the loop
\* moves offset forward, so that each loop ends after fewer than nbytes_used
\* iterations and install reaches the journal reset, whatever the records
\* below nbytes_used declare as their size.
C30_InstallTerminates ==
    [][(scan.pc \in {"first loop", "second loop"} /\ scan'.pc = scan.pc)
          => scan'.offset > scan.offset]_vars

\* the three blocks of image d that the variant's create merges
MetadataBlocks(d) == merge_read_metadata(d, read_block(d, 0))

\* the name as a directory entry stores it: its first NAME_LEN - 1 characters
StoredName(name) == SubSeq(name, 1, IF Len(name) < NAME_LEN THEN Len(name) ELSE NAME_LEN - 1)

\* the view the variant's create allocates from is what an install would
\* leave in the three blocks
ViewIsInstalled(d) ==
    merge_view(d, read_journal(d)) = MetadataBlocks(merge_cmd_install(d).disk)

\* the creates staged one after the other with distinct names got distinct
\* inodes and distinct directory slots
ConsecutiveDistinct(txns) ==
    \A k \in 1..(Len(txns) - 1) :
        txns[k].name # txns[k + 1].name =>
            /\ txns[k].free_inode # txns[k + 1].free_inode
            /\ txns[k].free_entry # txns[k + 1].free_entry

\* C31: in the merge-aware variant the view create allocates from equals the
\* inode bitmap, the first inode-table block and the root directory block as
\* an install would leave them; two consecutive creates with distinct names
\* and no install between them get distinct inodes and distinct directory
\* slots; and after the install every name created since the last one is
\* present in the root directory.
C31_MergeAwareCreate ==
    /\ ValidImage(disk) => ViewIsInstalled(disk)
    /\ ConsecutiveDistinct(staged)
    /\ (last.op = "install" /\ last.status = EXIT_SUCCESS) =>
           \A k \in 1..Len(last.txns) :
               NamePresent(MetadataBlocks(disk).root_blk, StoredName(last.txns[k].name))

====
